---- MODULE Spec2Model ----
(***************************************************************************)
(* HiCHeatmapView (src/app.jsx): the Hi-C contact-matrix tile viewer.      *)
(*                                                                         *)
(* The component is a React function component.  Its hook state is the    *)
(* set of variables below; a render takes a snapshot of that state, the   *)
(* passive effects of a commit run later with the snapshot of that        *)
(* commit, and the d3 / DOM listeners registered by the interaction       *)
(* effect keep the closure of the commit that registered them until the   *)
(* effect runs again.  Network fetches are in flight between the call of  *)
(* fetch() and the promise callback; their responses arrive in any order. *)
(*                                                                         *)
(* Numbers: a scale k is an exact rational <<n, d>>; pixel and genomic    *)
(* comparisons are made by cross-multiplication, so the model computes    *)
(* with exact arithmetic where the program computes with doubles.         *)
(***************************************************************************)
EXTENDS Integers, Sequences, FiniteSets, Bags, TLC

VARIABLES
    error,          \* useState(null)                       app.jsx:194
    status,         \* useState('idle')                     app.jsx:195
    tads,           \* useState(null)                       app.jsx:196
    compartments,   \* useState(null)                       app.jsx:197
    matrixData,     \* useState(null)                       app.jsx:198
    tileCoords,     \* useState({zoom:0,x:0,y:0})           app.jsx:200
    tileObj,        \* identity of the object held in tileCoords
    transform,      \* useState(d3.zoomIdentity)            app.jsx:201
    tadMethod,      \* useState('insulation')               app.jsx:202
    dimensions,     \* useResizeObserver(containerRef)      app.jsx:192
    tooltip,        \* App's useState({visible:false,...})  app.jsx:446
    canvasWidth,    \* canvas.width, a DOM property         app.jsx:266
    rendered,       \* the state snapshot of the last commit
    effectsPending, \* the last commit's passive effects have not run yet
    tileEffectDep,  \* the dependency [tileCoords] the tile-fetch effect last ran with
    handler,        \* closure of the listeners registered by the interaction effect
    tileReqs,       \* bag of tile requests in flight
    tadReqs,        \* bag of TAD requests in flight
    compReqs,       \* bag of compartment requests in flight
    userEvents,     \* number of zoom, click, select and resize events so far
    selectedGene,   \* GeneTracksView's useState(null)             app.jsx:111
    geneDetails,    \* GeneInfoPanel's useState(null)              app.jsx:28
    pathwayGraph,   \* useState(null)                              app.jsx:29
    isLoading,      \* useState(false)                             app.jsx:30
    pathwayStatus,  \* useState('idle')                            app.jsx:31
    panelGene,      \* the gene prop of GeneInfoPanel's last commit
    panelEffectsPending, \* that commit's passive effect has not run yet
    geneEffectDep,  \* the dependency [gene] the panel's effect last ran with
    geneChains      \* bag of request chains in flight, each at a stage

\* The state of HiCHeatmapView and of the tooltip it drives.
viewerVars == <<error, status, tads, compartments, matrixData, tileCoords, tileObj,
                transform, tadMethod, dimensions, tooltip, canvasWidth, rendered,
                effectsPending, tileEffectDep, handler, tileReqs, tadReqs, compReqs,
                userEvents>>

\* The state of GeneInfoPanel and of the selection it is given.
panelVars == <<selectedGene, geneDetails, pathwayGraph, isLoading, pathwayStatus,
               panelGene, panelEffectsPending, geneEffectDep, geneChains>>

vars == <<viewerVars, panelVars>>

(***************************************************************************)
(* Bounds of the exploration.                                              *)
(***************************************************************************)
MaxEvents == 2         \* zoom, click, select and resize events of one run
MaxTileReqs == 2       \* zoom events stop while this many tile requests are in flight
MaxAnnReqs == 1        \* clicks stop while this many annotation requests are in flight
MatrixBins == 2        \* side length of the matrices the tile service returns
MaxChains == 2         \* gene selections stop while this many request chains are in flight

(***************************************************************************)
(* Program constants.                                                      *)
(***************************************************************************)
\* The resolution table is written out at each place that looks a
\* resolution up: handleFindTADs, handleFindCompartments, the render effect
\* and handleMouseMove, in this order.
Resolutions ==
    <<10000, 20000, 40000, 80000, 160000, 320000, 640000, 1280000, 2560000, 5120000>>
ResolutionsCompartments ==
    <<10000, 20000, 40000, 80000, 160000, 320000, 640000, 1280000, 2560000, 5120000>>
ResolutionsRender ==
    <<10000, 20000, 40000, 80000, 160000, 320000, 640000, 1280000, 2560000, 5120000>>
\* A table that lacks the level of 40 kb.
ResolutionsMissingLevel ==
    <<10000, 20000, 80000, 160000, 320000, 640000, 1280000, 2560000, 5120000>>
ResolutionsMouseMove ==
    <<10000, 20000, 40000, 80000, 160000, 320000, 640000, 1280000, 2560000, 5120000>>
TileBins == 256
MinScale == 1
MaxScale == 64
MaxZoomLevel == 9
MinZoomLevel == 0
AxisMargin == 50
DefaultCanvasWidth == 300
QuantileNum == 19      \* the quantile 0.95 is QuantileNum / QuantileDen
QuantileDen == 20
DefaultDomainMax == 1000   \* the upper bound 1, in the thousandths cells are counted in

(***************************************************************************)
(* JavaScript values.  Every value a variable may hold is a record tagged  *)
(* with its kind, so that null, undefined, an array and a number are       *)
(* distinct values of one shape.                                           *)
(***************************************************************************)
Null == [js |-> "null"]
Undefined == [js |-> "undefined"]
Num(v) == [js |-> "number", v |-> v]
Str(s) == [js |-> "string", s |-> s]
Arr(items) == [js |-> "array", items |-> items]

\* !v
Truthy(v) ==
    /\ v # Null
    /\ v # Undefined
    /\ (v.js = "number" => v.v # 0)
    /\ (v.js = "string" => v.s # "")

NoHandler == [js |-> "none"]
NoDep == [js |-> "none"]

ErrBackend == Str("Could not connect to the backend server.")
ErrTads == Str("Failed to fetch TADs.")
ErrCompartments == Str("Failed to fetch A/B compartments.")

(***************************************************************************)
(* Pure helpers.                                                           *)
(***************************************************************************)
Min(a, b) == IF a < b THEN a ELSE b
Max(a, b) == IF a > b THEN a ELSE b

RECURSIVE Pow2(_)
Pow2(n) == IF n <= 0 THEN 1 ELSE 2 * Pow2(n - 1)

\* Math.floor(Math.log2(n / d)) for a rational n / d > 0.
RECURSIVE FloorLog2(_, _)
FloorLog2(n, d) ==
    IF n < d THEN FloorLog2(2 * n, d) - 1
    ELSE IF n < 2 * d THEN 0
    ELSE FloorLog2(n, 2 * d) + 1

\* Math.min(9, Math.max(0, Math.floor(Math.log2(event.transform.k))))
NewZoomLevel(k) == Min(MaxZoomLevel, Max(MinZoomLevel, FloorLog2(k[1], k[2])))

\* [10000, ..., 5120000][zoom], for a zoom that is an index of the table.
Resolution(zoom) == Resolutions[zoom + 1]

\* The genomic region an annotation request names for a tile address.
RegionOf(coords) ==
    LET resolution == Resolution(coords.zoom)
    IN  [start |-> coords.x * TileBins * resolution,
         end   |-> (coords.x + 1) * TileBins * resolution]

\* The same, as handleFindCompartments computes it from its own table.
CompartmentRegionOf(coords) ==
    LET resolution == ResolutionsCompartments[coords.zoom + 1]
    IN  [start |-> coords.x * TileBins * resolution,
         end   |-> (coords.x + 1) * TileBins * resolution]

(***************************************************************************)
(* The collaborator HTTP service, a black box: what it answers for a tile  *)
(* address or a region.  Answers differ from address to address, so that   *)
(* a stored value tells which request it came from.                        *)
(***************************************************************************)
TileData(coords) ==
    Arr([i \in 1..MatrixBins |->
            [j \in 1..MatrixBins |->
                IF i = j THEN Num(coords.zoom + 1)
                ELSE IF i - j \in {-1, 1} THEN Num(0)
                ELSE Null]])

EmptyTile == Arr(<<>>)

TadsFor(region, method) ==
    LET resolution == (region.end - region.start) \div TileBins
        whole == [start |-> region.start,
                  end   |-> region.start + MatrixBins * resolution]
        first == [start |-> region.start, end |-> region.start + resolution]
    IN  Arr(IF method = "insulation" THEN <<first, whole>> ELSE <<whole>>)

CompartmentsFor(region) ==
    LET resolution == (region.end - region.start) \div TileBins
        mid == region.start + resolution
    IN  Arr(<<[start |-> region.start, end |-> mid, E1 |-> 1],
              [start |-> mid, end |-> region.start + MatrixBins * resolution,
               E1 |-> -1]>>)

(***************************************************************************)
(* Inputs of the exploration.                                              *)
(***************************************************************************)
\* Scales of the exploration: both ends of the scale extent, a scale within
\* level 0 and two scales of level 1.
CandidateScales ==
    {<<MinScale, 1>>, <<MaxScale, 1>>, <<3, 2>>, <<2, 1>>, <<3, 1>>}

\* A zoom behaviour without a scale extent: gestures reach past both ends.
ZoomScalesUnbounded ==
    CandidateScales \cup {<<MinScale, 2>>, <<2 * MaxScale, 1>>}

\* Scales a zoom gesture can produce: d3.zoom().scaleExtent([1, 64]).
ZoomScales ==
    {k \in CandidateScales :
        /\ k[1] >= MinScale * k[2]
        /\ k[1] <= MaxScale * k[2]}

Pans == {0}
ContainerWidths == {AxisMargin + 4 * MatrixBins}
TadMethods == {"insulation", "clustertad"}

ZoomIdentity == [k |-> <<1, 1>>, x |-> 0, y |-> 0]

\* useState({ visible: false, content: '', x: 0, y: 0 }); a content string is
\* the record of its parts.
InitialTooltip == [visible |-> FALSE, content |-> [kind |-> "empty"], x |-> 0, y |-> 0]

(***************************************************************************)
(* React bookkeeping.                                                      *)
(***************************************************************************)
\* The hook state that the closures and effect dependencies of a render
\* capture.  error and status are read by the JSX alone (app.jsx:431-432),
\* which shows their current values; no closure or dependency holds them.
StateRecord ==
    [tads |-> tads, compartments |-> compartments, matrixData |-> matrixData,
     tileCoords |-> tileCoords, tileObj |-> tileObj, transform |-> transform,
     tadMethod |-> tadMethod, dimensions |-> dimensions]

\* A new object: one that neither the last commit nor the effect's stored
\* dependency holds.
FreshObj ==
    CHOOSE i \in 0..2 :
        /\ i # rendered.tileObj
        /\ tileEffectDep # NoDep => i # tileEffectDep.obj

\* GeneInfoPanel as mounted, with no gene selected.
PanelInit ==
    /\ selectedGene = Null
    /\ geneDetails = Null
    /\ pathwayGraph = Null
    /\ isLoading = FALSE
    /\ pathwayStatus = "idle"
    /\ panelGene = Null
    /\ panelEffectsPending = TRUE
    /\ geneEffectDep = NoDep
    /\ geneChains = EmptyBag

Init ==
    /\ PanelInit
    /\ error = Null
    /\ status = "idle"
    /\ tads = Null
    /\ compartments = Null
    /\ matrixData = Null
    /\ tileCoords = [zoom |-> 0, x |-> 0, y |-> 0]
    /\ tileObj = 0
    /\ transform = ZoomIdentity
    /\ tadMethod = "insulation"
    /\ dimensions = Null
    /\ tooltip = InitialTooltip
    /\ canvasWidth = DefaultCanvasWidth
    /\ rendered = StateRecord
    /\ effectsPending = TRUE
    /\ tileEffectDep = NoDep
    /\ handler = NoHandler
    /\ tileReqs = EmptyBag
    /\ tadReqs = EmptyBag
    /\ compReqs = EmptyBag
    /\ userEvents = 0

(***************************************************************************)
(* React: a render commits the current state; the commit's passive        *)
(* effects run before the next render.                                    *)
(***************************************************************************)
Render ==
    /\ ~effectsPending
    /\ StateRecord # rendered
    /\ rendered' = StateRecord
    /\ effectsPending' = TRUE
    /\ UNCHANGED <<error, status, tads, compartments, matrixData, tileCoords,
                   tileObj, transform, tadMethod, dimensions, tooltip,
                   canvasWidth, tileEffectDep, handler, tileReqs, tadReqs,
                   compReqs, userEvents,
                   panelVars>>

\* The tile-fetch effect, useEffect(..., [tileCoords]).
TileEffectRuns == tileEffectDep = NoDep \/ rendered.tileObj # tileEffectDep.obj

\* The render effect sets canvas.width unless it returns early.
RenderEffectPaints == Truthy(rendered.matrixData) /\ rendered.dimensions # Null

\* The closure the interaction effect registers.
HandlerOf(r) ==
    [js |-> "closure", matrixData |-> r.matrixData, transform |-> r.transform,
     tileCoords |-> r.tileCoords, tads |-> r.tads]

FlushEffects ==
    /\ effectsPending
    /\ effectsPending' = FALSE
    /\ IF TileEffectRuns
       THEN /\ status' = "fetching"
            /\ error' = Null
            /\ tads' = Null
            /\ compartments' = Null
            /\ tileReqs' = tileReqs (+) SetToBag({rendered.tileCoords})
            /\ tileEffectDep' = [js |-> "deps", obj |-> rendered.tileObj,
                                 coords |-> rendered.tileCoords]
       ELSE UNCHANGED <<status, error, tads, compartments, tileReqs, tileEffectDep>>
    /\ canvasWidth' = IF RenderEffectPaints
                      THEN rendered.dimensions.width - AxisMargin
                      ELSE canvasWidth
    /\ handler' = HandlerOf(rendered)
    /\ UNCHANGED <<matrixData, tileCoords, tileObj, transform, tadMethod,
                   dimensions, tooltip, rendered, tadReqs, compReqs, userEvents,
                   panelVars>>

(***************************************************************************)
(* The zoom handler, registered by the interaction effect.                 *)
(***************************************************************************)
\* A zoom handler that also asks for the TADs of the address it stores.
ZoomEventFindingTads(k, x, y) ==
    LET newZoomLevel == NewZoomLevel(k)
        eventTransform == [k |-> k, x |-> x, y |-> y]
    IN  /\ handler # NoHandler
        /\ eventTransform # transform
        /\ userEvents < MaxEvents
        /\ userEvents' = userEvents + 1
        /\ BagCardinality(tileReqs)
              + (IF tileEffectDep = NoDep \/ tileObj # tileEffectDep.obj THEN 1 ELSE 0)
              < MaxTileReqs
        /\ IF newZoomLevel # handler.tileCoords.zoom
           THEN /\ tileCoords' = [zoom |-> newZoomLevel, x |-> 0, y |-> 0]
                /\ tileObj' = FreshObj
           ELSE UNCHANGED <<tileCoords, tileObj>>
        /\ transform' = eventTransform
        /\ tadReqs' = tadReqs (+) SetToBag({[region |-> RegionOf(tileCoords'),
                                              method |-> tadMethod]})
        /\ UNCHANGED <<error, status, tads, compartments, matrixData, tadMethod,
                       dimensions, tooltip, canvasWidth, rendered, effectsPending,
                       tileEffectDep, handler, tileReqs, compReqs,
                       panelVars>>

\* A zoom handler that takes the tile column and row from the translation.
ZoomEventPanningTiles(k, x, y) ==
    LET newZoomLevel == NewZoomLevel(k)
        eventTransform == [k |-> k, x |-> x, y |-> y]
    IN  /\ handler # NoHandler
        /\ eventTransform # transform
        /\ userEvents < MaxEvents
        /\ userEvents' = userEvents + 1
        /\ BagCardinality(tileReqs)
              + (IF tileEffectDep = NoDep \/ tileObj # tileEffectDep.obj THEN 1 ELSE 0)
              < MaxTileReqs
        /\ IF newZoomLevel # handler.tileCoords.zoom
           THEN /\ tileCoords' = [zoom |-> newZoomLevel, x |-> -x, y |-> -y]
                /\ tileObj' = FreshObj
           ELSE UNCHANGED <<tileCoords, tileObj>>
        /\ transform' = eventTransform
        /\ UNCHANGED <<error, status, tads, compartments, matrixData, tadMethod,
                       dimensions, tooltip, canvasWidth, rendered, effectsPending,
                       tileEffectDep, handler, tileReqs, tadReqs, compReqs,
                       panelVars>>

ZoomEvent(k, x, y) ==
    LET newZoomLevel == NewZoomLevel(k)
        eventTransform == [k |-> k, x |-> x, y |-> y]
    IN  /\ handler # NoHandler
        /\ eventTransform # transform
        /\ userEvents < MaxEvents
        /\ userEvents' = userEvents + 1
        /\ BagCardinality(tileReqs)
              + (IF tileEffectDep = NoDep \/ tileObj # tileEffectDep.obj THEN 1 ELSE 0)
              < MaxTileReqs
        /\ IF newZoomLevel # handler.tileCoords.zoom
           THEN /\ tileCoords' = [zoom |-> newZoomLevel, x |-> 0, y |-> 0]
                /\ tileObj' = FreshObj
           ELSE UNCHANGED <<tileCoords, tileObj>>
        /\ transform' = eventTransform
        /\ UNCHANGED <<error, status, tads, compartments, matrixData, tadMethod,
                       dimensions, tooltip, canvasWidth, rendered, effectsPending,
                       tileEffectDep, handler, tileReqs, tadReqs, compReqs,
                       panelVars>>

(***************************************************************************)
(* Tile responses: the promise chain of the tile-fetch effect.             *)
(***************************************************************************)
\* .then(tileData => { setMatrixData(tileData.data); setStatus('rendered') })
TileResolve(req, data) ==
    /\ BagIn(req, tileReqs)
    /\ tileReqs' = tileReqs (-) SetToBag({req})
    /\ matrixData' = data
    /\ status' = "rendered"
    /\ UNCHANGED <<error, tads, compartments, tileCoords, tileObj, transform,
                   tadMethod, dimensions, tooltip, canvasWidth, rendered,
                   effectsPending, tileEffectDep, handler, tadReqs, compReqs,
                   userEvents,
                   panelVars>>

\* .catch(err => setError("Could not connect to the backend server."))
TileReject(req) ==
    /\ BagIn(req, tileReqs)
    /\ tileReqs' = tileReqs (-) SetToBag({req})
    /\ error' = ErrBackend
    /\ UNCHANGED <<status, tads, compartments, matrixData, tileCoords, tileObj,
                   transform, tadMethod, dimensions, tooltip, canvasWidth,
                   rendered, effectsPending, tileEffectDep, handler, tadReqs,
                   compReqs, userEvents,
                   panelVars>>

\* What a parsed tile response carries in its data field: the matrix of the
\* address, an empty matrix, or nothing.
TilePayloads(req) == {TileData(req), EmptyTile, Undefined}

(***************************************************************************)
(* Annotation fetchers.  The buttons carry the handlers of the last        *)
(* commit, which read that commit's tileCoords and tadMethod.              *)
(***************************************************************************)
handleFindTADs ==
    /\ userEvents < MaxEvents
    /\ userEvents' = userEvents + 1
    /\ BagCardinality(tadReqs) < MaxAnnReqs
    /\ tadReqs' = tadReqs (+) SetToBag({[region |-> RegionOf(rendered.tileCoords),
                                          method |-> rendered.tadMethod]})
    /\ UNCHANGED <<error, status, tads, compartments, matrixData, tileCoords,
                   tileObj, transform, tadMethod, dimensions, tooltip,
                   canvasWidth, rendered, effectsPending, tileEffectDep, handler,
                   tileReqs, compReqs,
                   panelVars>>

\* What a parsed TAD response is: the array for the region, or {error}.
TadAnswers(req) == {TadsFor(req.region, req.method), [js |-> "object", error |-> "e"]}

\* .then(data => { if (data.error) throw ...; setTads(data) }), the throw
\* being caught by the chain's .catch.
TadsResolve(req, data) ==
    /\ BagIn(req, tadReqs)
    /\ tadReqs' = tadReqs (-) SetToBag({req})
    /\ IF data.js = "object"
       THEN error' = ErrTads /\ UNCHANGED tads
       ELSE tads' = data /\ UNCHANGED error
    /\ UNCHANGED <<status, compartments, matrixData, tileCoords, tileObj,
                   transform, tadMethod, dimensions, tooltip, canvasWidth,
                   rendered, effectsPending, tileEffectDep, handler, tileReqs,
                   compReqs, userEvents,
                   panelVars>>

\* .catch(err => setError('Failed to fetch TADs.')) on a rejected request.
TadsReject(req) ==
    /\ BagIn(req, tadReqs)
    /\ tadReqs' = tadReqs (-) SetToBag({req})
    /\ error' = ErrTads
    /\ UNCHANGED <<status, tads, compartments, matrixData, tileCoords, tileObj,
                   transform, tadMethod, dimensions, tooltip, canvasWidth,
                   rendered, effectsPending, tileEffectDep, handler, tileReqs,
                   compReqs, userEvents,
                   panelVars>>

handleFindCompartments ==
    /\ userEvents < MaxEvents
    /\ userEvents' = userEvents + 1
    /\ BagCardinality(compReqs) < MaxAnnReqs
    /\ compReqs' = compReqs (+) SetToBag({[region |->
                                             CompartmentRegionOf(rendered.tileCoords)]})
    /\ UNCHANGED <<error, status, tads, compartments, matrixData, tileCoords,
                   tileObj, transform, tadMethod, dimensions, tooltip,
                   canvasWidth, rendered, effectsPending, tileEffectDep, handler,
                   tileReqs, tadReqs,
                   panelVars>>

CompartmentAnswers(req) ==
    {CompartmentsFor(req.region), [js |-> "object", error |-> "e"]}

CompartmentsResolve(req, data) ==
    /\ BagIn(req, compReqs)
    /\ compReqs' = compReqs (-) SetToBag({req})
    /\ IF data.js = "object"
       THEN error' = ErrCompartments /\ UNCHANGED compartments
       ELSE compartments' = data /\ UNCHANGED error
    /\ UNCHANGED <<status, tads, matrixData, tileCoords, tileObj, transform,
                   tadMethod, dimensions, tooltip, canvasWidth, rendered,
                   effectsPending, tileEffectDep, handler, tileReqs, tadReqs,
                   userEvents,
                   panelVars>>

CompartmentsReject(req) ==
    /\ BagIn(req, compReqs)
    /\ compReqs' = compReqs (-) SetToBag({req})
    /\ error' = ErrCompartments
    /\ UNCHANGED <<status, tads, compartments, matrixData, tileCoords, tileObj,
                   transform, tadMethod, dimensions, tooltip, canvasWidth,
                   rendered, effectsPending, tileEffectDep, handler, tileReqs,
                   tadReqs, userEvents,
                   panelVars>>

\* <select value={tadMethod} onChange={(e) => setTadMethod(e.target.value)}>
SelectTadMethod(m) ==
    /\ userEvents < MaxEvents
    /\ userEvents' = userEvents + 1
    /\ m # tadMethod
    /\ tadMethod' = m
    /\ UNCHANGED <<error, status, tads, compartments, matrixData, tileCoords,
                   tileObj, transform, dimensions, tooltip, canvasWidth, rendered,
                   effectsPending, tileEffectDep, handler, tileReqs, tadReqs,
                   compReqs,
                   panelVars>>

\* The ResizeObserver callback: setDimensions(entry.contentRect).
Resize(w) ==
    /\ userEvents < MaxEvents
    /\ userEvents' = userEvents + 1
    /\ dimensions # [js |-> "rect", width |-> w]
    /\ dimensions' = [js |-> "rect", width |-> w]
    /\ UNCHANGED <<error, status, tads, compartments, matrixData, tileCoords,
                   tileObj, transform, tadMethod, tooltip, canvasWidth, rendered,
                   effectsPending, tileEffectDep, handler, tileReqs, tadReqs,
                   compReqs,
                   panelVars>>

(***************************************************************************)
(* The overlay hit-tester: handleMouseMove of the interaction effect.      *)
(* A rational is a pair <<numerator, denominator>> with a positive         *)
(* denominator.                                                            *)
(***************************************************************************)
RatLeq(a, b) == a[1] * b[2] <= b[1] * a[2]

RECURSIVE Gcd(_, _)
Gcd(a, b) == IF b = 0 THEN a ELSE Gcd(b, a % b)

\* The same rational in lowest terms, which keeps the products of the
\* comparisons small.
Reduce(a) ==
    LET g == Gcd(IF a[1] < 0 THEN -a[1] ELSE a[1], a[2])
    IN  <<a[1] \div g, a[2] \div g>>

\* Math.floor(n / d), d > 0.
RatFloor(a) == a[1] \div a[2]

RECURSIVE Pow10(_)
Pow10(n) == IF n <= 0 THEN 1 ELSE 10 * Pow10(n - 1)

RECURSIVE FloorLog10(_)
FloorLog10(v) == IF v < 10 THEN 0 ELSE 1 + FloorLog10(v \div 10)

\* d3.format(".3s")(v) for an integer v: three significant digits and the SI
\* prefix of the value's thousands group.  The string is the record of its
\* parts: "20.0k" is [neg |-> FALSE, digits |-> 200, exp |-> 4].
FormatSI3(v) ==
    LET a == IF v < 0 THEN -v ELSE v
        e == FloorLog10(a)
        d == IF e >= 2
             THEN (2 * a + Pow10(e - 2)) \div (2 * Pow10(e - 2))
             ELSE a * Pow10(2 - e)
    IN  IF a = 0 THEN [neg |-> FALSE, digits |-> 0, exp |-> 0]
        ELSE IF d >= 1000 THEN [neg |-> v < 0, digits |-> 100, exp |-> e + 1]
        ELSE [neg |-> v < 0, digits |-> d, exp |-> e]

\* value.toFixed(2): cell values are counted in thousandths, the result in
\* hundredths, rounded half away from zero.
ToFixed2(v) == IF v >= 0 THEN (v + 5) \div 10 ELSE -((5 - v) \div 10)

\* transform.invert([mouseX, mouseY])
Invert(t, mouseX, mouseY) ==
    <<  <<(mouseX - t.x) * t.k[2], t.k[1]>>,  <<(mouseY - t.y) * t.k[2], t.k[1]>>  >>

\* The square of a TAD in tile pixels contains the inverted pointer.
TadContains(tad, inverted, viewStart, resolution, width, numBins) ==
    LET tadX_px == Reduce(<<(tad.start - viewStart) * width, resolution * numBins>>)
        tadEnd_px == Reduce(<<(tad.end - viewStart) * width, resolution * numBins>>)
    IN  /\ RatLeq(tadX_px, inverted[1]) /\ RatLeq(inverted[1], tadEnd_px)
        /\ RatLeq(tadX_px, inverted[2]) /\ RatLeq(inverted[2], tadEnd_px)

\* A loop that keeps the last TAD that contains the pointer.
LastTadHit(tadList, inverted, viewStart, resolution, width, numBins) ==
    LET hits == {n \in 1..Len(tadList) :
                    TadContains(tadList[n], inverted, viewStart, resolution,
                                width, numBins)}
    IN  IF hits = {} THEN 0 ELSE CHOOSE n \in hits : \A m \in hits : n >= m

\* for (const tad of tads) ... return at the first TAD that contains the
\* pointer: the index of that TAD, 0 when there is none.
FirstTadHit(tadList, inverted, viewStart, resolution, width, numBins) ==
    LET hits == {n \in 1..Len(tadList) :
                    TadContains(tadList[n], inverted, viewStart, resolution,
                                width, numBins)}
    IN  IF hits = {} THEN 0 ELSE CHOOSE n \in hits : \A m \in hits : n <= m

HiddenTooltip == [visible |-> FALSE]

TadTooltip(tad, event) ==
    [visible |-> TRUE,
     content |-> [kind |-> "TAD", start |-> FormatSI3(tad.start),
                  end |-> FormatSI3(tad.end)],
     x |-> event.pageX, y |-> event.pageY]

ScoreTooltip(value, event) ==
    [visible |-> TRUE,
     content |-> [kind |-> "Score", value |-> ToFixed2(value.v)],
     x |-> event.pageX, y |-> event.pageY]

\* The fallback: the tooltip for the matrix cell under the pointer.
CellTooltip(matrix, inverted, width, numBins, event) ==
    LET i == RatFloor(<<inverted[2][1] * numBins, inverted[2][2] * width>>)
        j == RatFloor(<<inverted[1][1] * numBins, inverted[1][2] * width>>)
    IN  IF i >= 0 /\ i < numBins /\ j >= 0 /\ j < numBins
        THEN LET value == matrix.items[i + 1][j + 1]
             IN  IF value # Null THEN ScoreTooltip(value, event) ELSE HiddenTooltip
        ELSE HiddenTooltip

\* canvas.getBoundingClientRect(): the canvas sits at the page origin.
CanvasRect == [left |-> 0, top |-> 0]

\* A handler that tests the matrix for null alone: with no bins no cell is
\* under the pointer, and the tooltip is hidden.
TooltipAfterMoveUnguarded(h, width, event) ==
    IF ~Truthy(h.matrixData) THEN tooltip ELSE HiddenTooltip

\* The tooltip handleMouseMove sets, or the current one when it returns
\* without setting any.
TooltipAfterMove(h, width, event) ==
    IF ~Truthy(h.matrixData) \/ Len(h.matrixData.items) = 0 THEN tooltip
    ELSE
        LET mouseX == event.clientX - CanvasRect.left
            mouseY == event.clientY - CanvasRect.top
            inverted == Invert(h.transform, mouseX, mouseY)
            numBins == Len(h.matrixData.items)
            resolution == ResolutionsMouseMove[h.tileCoords.zoom + 1]
            viewStart == h.tileCoords.x * TileBins * resolution
            hit == IF Truthy(h.tads)
                   THEN FirstTadHit(h.tads.items, inverted, viewStart, resolution,
                                    width, numBins)
                   ELSE 0
        IN  IF hit # 0 THEN TadTooltip(h.tads.items[hit], event)
            ELSE CellTooltip(h.matrixData, inverted, width, numBins, event)

\* A pointer-move handler that also stores the address anew.
handleMouseMoveStoringAddress(event) ==
    /\ handler # NoHandler
    /\ tooltip' = TooltipAfterMove(handler, canvasWidth, event)
    /\ tileCoords' = [zoom |-> handler.tileCoords.zoom, x |-> 0, y |-> 0]
    /\ tileObj' = FreshObj
    /\ UNCHANGED <<error, status, tads, compartments, matrixData, transform,
                   tadMethod, dimensions, canvasWidth, rendered, effectsPending,
                   tileEffectDep, handler, tileReqs, tadReqs, compReqs,
                   userEvents,
                   panelVars>>

handleMouseMove(event) ==
    /\ handler # NoHandler
    /\ tooltip' = TooltipAfterMove(handler, canvasWidth, event)
    /\ UNCHANGED <<error, status, tads, compartments, matrixData, tileCoords,
                   tileObj, transform, tadMethod, dimensions, canvasWidth,
                   rendered, effectsPending, tileEffectDep, handler, tileReqs,
                   tadReqs, compReqs, userEvents,
                   panelVars>>

\* const handleMouseOut = () => setTooltip({ visible: false })
handleMouseOut ==
    /\ handler # NoHandler
    /\ tooltip' = HiddenTooltip
    /\ UNCHANGED <<error, status, tads, compartments, matrixData, tileCoords,
                   tileObj, transform, tadMethod, dimensions, canvasWidth,
                   rendered, effectsPending, tileEffectDep, handler, tileReqs,
                   tadReqs, compReqs, userEvents,
                   panelVars>>

\* Pointer events of the exploration: page and client coordinates agree.
MouseEvent(x, y) == [clientX |-> x, clientY |-> y, pageX |-> x, pageY |-> y]

MousePoints == {MouseEvent(1, 1), MouseEvent(1, 200)}

(***************************************************************************)
(* The render effect: what it paints for the snapshot of a commit.         *)
(***************************************************************************)
RECURSIVE Flat(_)
\* matrixData.flat()
Flat(rows) == IF rows = <<>> THEN <<>> ELSE Head(rows) \o Flat(Tail(rows))

\* v > 0, for a cell that is a number or null.
IsPositive(c) == c # Null /\ c.v > 0

\* A filter that keeps every number: v !== null.
NonNullValues(matrix) ==
    LET cells == SelectSeq(Flat(matrix.items), LAMBDA c : c # Null)
    IN  [n \in 1..Len(cells) |-> cells[n].v]

\* matrixData.flat().filter(v => v > 0)
PositiveValues(matrix) ==
    LET cells == SelectSeq(Flat(matrix.items), IsPositive)
    IN  [n \in 1..Len(cells) |-> cells[n].v]

\* d3.quantile(values, 0.95): undefined for no value, the value for one,
\* else the value at rank i = (n - 1) * 0.95 of the ordered values, between
\* the ranks floor(i) and floor(i) + 1 in proportion.  A rational.
Quantile(values) ==
    LET n == Len(values)
        ordered == SortSeq(values, LAMBDA a, b : a < b)
        i == (n - 1) * QuantileNum
        i0 == i \div QuantileDen
        value0 == ordered[i0 + 1]
        value1 == ordered[i0 + 2]
    IN  IF n = 0 THEN Undefined
        ELSE IF n < 2 THEN [js |-> "number", q |-> <<ordered[1], 1>>]
        ELSE [js |-> "number",
              q |-> Reduce(<<value0 * QuantileDen
                               + (value1 - value0) * (i - i0 * QuantileDen),
                             QuantileDen>>)]

\* .domain([0, d3.quantile(...) || 1])
ColorDomain(matrix) ==
    LET quantile == Quantile(PositiveValues(matrix))
    IN  <<0, IF quantile = Undefined \/ quantile.q[1] = 0
             THEN <<DefaultDomainMax, 1>>
             ELSE quantile.q>>

\* The cells the double loop fills: value !== null && value > 0.
PaintedCells(matrix) ==
    LET numBins == Len(matrix.items)
    IN  {c \in (1..numBins) \X (1..numBins) :
            LET value == matrix.items[c[1]][c[2]]
            IN  value # Null /\ value.v > 0}

RatAdd(a, b) == Reduce(<<a[1] * b[2] + b[1] * a[2], a[2] * b[2]>>)

\* The TADs whose outline tads.forEach strokes, as indices of the list:
\* if (x >= 0 && (x + tadSize) <= size).
OutlinedTads(r, size) ==
    LET numBins == Len(r.matrixData.items)
        resolution == ResolutionsRender[r.tileCoords.zoom + 1]
        viewStart == r.tileCoords.x * TileBins * resolution
    IN  IF ~Truthy(r.tads) THEN {}
        ELSE {n \in 1..Len(r.tads.items) :
                LET tad == r.tads.items[n]
                    x == Reduce(<<(tad.start - viewStart) * size,
                                  resolution * numBins>>)
                    tadSize == Reduce(<<(tad.end - tad.start) * size,
                                        resolution * numBins>>)
                IN  /\ RatLeq(<<0, 1>>, x)
                    /\ RatLeq(RatAdd(x, tadSize), <<size, 1>>)}

\* The render effect on the snapshot r: it returns at once without a matrix
\* or without dimensions, it clears the canvas and returns for a matrix of
\* no bins, and it paints otherwise.
RenderEffect(r) ==
    IF ~Truthy(r.matrixData) \/ r.dimensions = Null THEN [outcome |-> "returned"]
    ELSE LET size == r.dimensions.width - AxisMargin
         IN  IF Len(r.matrixData.items) = 0
             THEN [outcome |-> "cleared", size |-> size, cells |-> {},
                   tadOutlines |-> {}]
             ELSE [outcome |-> "painted", size |-> size,
                   domain |-> ColorDomain(r.matrixData),
                   cells |-> PaintedCells(r.matrixData),
                   tadOutlines |-> OutlinedTads(r, size)]

Next ==
    \/ Render
    \/ FlushEffects
    \/ \E k \in ZoomScales, x \in Pans, y \in Pans : ZoomEvent(k, x, y)
    \/ \E req \in BagToSet(tileReqs) :
          \E data \in TilePayloads(req) : TileResolve(req, data)
    \/ \E req \in BagToSet(tileReqs) : TileReject(req)
    \/ handleFindTADs
    \/ \E req \in BagToSet(tadReqs) :
          \E data \in TadAnswers(req) : TadsResolve(req, data)
    \/ \E req \in BagToSet(tadReqs) : TadsReject(req)
    \/ handleFindCompartments
    \/ \E req \in BagToSet(compReqs) :
          \E data \in CompartmentAnswers(req) : CompartmentsResolve(req, data)
    \/ \E req \in BagToSet(compReqs) : CompartmentsReject(req)
    \/ \E m \in TadMethods : SelectTadMethod(m)
    \/ \E w \in ContainerWidths : Resize(w)
    \/ \E event \in MousePoints : handleMouseMove(event)
    \/ handleMouseOut

Spec == Init /\ [][Next]_vars

(***************************************************************************)
(* The hit-tester on its own: the viewer at rest with a tile and           *)
(* annotations loaded, under pointer events.  The tile service and the     *)
(* annotation service are black boxes, so the loaded matrix and TAD list   *)
(* range over the shapes below; the transform is one the zoom behaviour    *)
(* can have produced.                                                      *)
(***************************************************************************)
HitZooms == {0, 6}
HitWidths == {4}
HitScales == {<<1, 1>>, <<3, 2>>, <<MaxScale, 1>>}
HitPans == {0, -1}
MaxPointer == 4        \* pointer coordinates range over 0..MaxPointer

\* A square matrix with v on the diagonal and c elsewhere.
DiagMatrix(n, v, c) ==
    Arr([i \in 1..n |-> [j \in 1..n |-> IF i = j THEN v ELSE c]])

\* [[0,5,0,0],[5,0,3,0],[0,3,0,8],[0,0,8,0]], in thousandths.
BandMatrix ==
    Arr(<< <<Num(0), Num(5000), Num(0), Num(0)>>,
           <<Num(5000), Num(0), Num(3000), Num(0)>>,
           <<Num(0), Num(3000), Num(0), Num(8000)>>,
           <<Num(0), Num(0), Num(8000), Num(0)>> >>)

\* The values 0, 0, 5, 10, 20, 100 in no order, with a row of no data.
SkewedMatrix ==
    Arr(<< <<Num(0), Num(100000), Num(5000)>>,
           <<Num(20000), Num(0), Num(10000)>>,
           <<Null, Null, Null>> >>)

HitMatrices ==
    {Null, Undefined, EmptyTile, BandMatrix, SkewedMatrix,
     DiagMatrix(2, Num(7004), Null), DiagMatrix(3, Null, Num(-1500))}

\* A TAD over bins [from, to) of the tile at a zoom level.
BinTad(zoom, from, to) ==
    [start |-> from * Resolution(zoom), end |-> to * Resolution(zoom)]

HitTadLists(zoom) ==
    {Null, Arr(<<>>),
     Arr(<<BinTad(zoom, 0, 2)>>),
     Arr(<<BinTad(zoom, 0, 1), BinTad(zoom, 0, 2)>>),
     Arr(<<BinTad(zoom, 0, 2), BinTad(zoom, 1, 2)>>),
     Arr(<<BinTad(zoom, 1, 2), BinTad(zoom, 0, 4), BinTad(zoom, 0, 1)>>)}

InitHit ==
    /\ PanelInit
    /\ error = Null
    /\ status = "rendered"
    /\ compartments = Null
    /\ tileObj = 0
    /\ tadMethod = "insulation"
    /\ tooltip = InitialTooltip
    /\ effectsPending = FALSE
    /\ tileReqs = EmptyBag
    /\ tadReqs = EmptyBag
    /\ compReqs = EmptyBag
    /\ userEvents = 0
    /\ \E zoom \in HitZooms :
          /\ tileCoords = [zoom |-> zoom, x |-> 0, y |-> 0]
          /\ tads \in HitTadLists(zoom)
          /\ \E k \in {q \in HitScales : NewZoomLevel(q) = zoom} :
                \E x \in HitPans, y \in HitPans :
                   transform = [k |-> k, x |-> x, y |-> y]
    /\ matrixData \in HitMatrices
    /\ \E w \in HitWidths :
          /\ dimensions = [js |-> "rect", width |-> w + AxisMargin]
          /\ canvasWidth = IF Truthy(matrixData) THEN w ELSE DefaultCanvasWidth
    /\ rendered = StateRecord
    /\ tileEffectDep = [js |-> "deps", obj |-> tileObj, coords |-> tileCoords]
    /\ handler = HandlerOf(rendered)

HitPoints == {MouseEvent(x, y) : x \in 0..MaxPointer, y \in 0..MaxPointer}

NextHit ==
    \/ \E event \in HitPoints : handleMouseMove(event)
    \/ handleMouseOut

SpecHit == InitHit /\ [][NextHit]_vars

(***************************************************************************)
(* Properties.                                                             *)
(***************************************************************************)

\* The current address is committed and the tile-fetch effect has run for
\* it: its request is issued, and the overlays of the address before it
\* are cleared.
AddressSettled ==
    /\ rendered.tileObj = tileObj
    /\ tileEffectDep # NoDep
    /\ tileEffectDep.obj = tileObj

\* C1 (stale-response guard): once the matrix returned for the current
\* address is stored, the matrix of a successful response to a request made
\* for another address does not replace it.
C1_StaleTileDiscarded ==
    [][\A req \in BagToSet(tileReqs) :
          (/\ TileResolve(req, TileData(req))
           /\ req # tileCoords
           /\ AddressSettled
           /\ matrixData = TileData(tileCoords))
          => matrixData' = matrixData]_vars

\* The address a commit shows differs from the one the last tile request
\* was made for (or none was made yet).
AddressChanged ==
    tileEffectDep = NoDep \/ tileEffectDep.coords # rendered.tileCoords

\* C2 (fetch protocol): when the effects of a commit run, a changed address
\* moves status to 'fetching', empties the TAD and the compartment
\* collection and adds exactly one request, for the new address; an address
\* that did not change adds no request.
C2_OneRequestPerChange ==
    [][FlushEffects =>
          IF AddressChanged
          THEN /\ status' = "fetching"
               /\ tads' = Null
               /\ compartments' = Null
               /\ tileReqs' = tileReqs (+) SetToBag({rendered.tileCoords})
          ELSE tileReqs' = tileReqs]_vars

\* C3 (tile-fetch network failure): a rejected request for the current
\* address leaves status 'error', an error message set and no matrix stored.
C3_RejectGivesError ==
    [][\A req \in BagToSet(tileReqs) :
          (TileReject(req) /\ req = tileCoords)
          => /\ status' = "error"
             /\ error' # Null
             /\ ~Truthy(matrixData')]_vars

\* C4 (malformed tile payload): a response without a data field leaves
\* status 'error' with an error message set, never 'rendered'.
C4_MalformedGivesError ==
    [][\A req \in BagToSet(tileReqs) :
          TileResolve(req, Undefined)
          => /\ status' = "error"
             /\ error' # Null]_vars

\* clamp(floor(log2(k)), 0, 9): the level L with 2^L <= k < 2^(L+1), held
\* to 0..9.
LevelOfScale(k) ==
    CHOOSE L \in MinZoomLevel..MaxZoomLevel :
        /\ (L > MinZoomLevel => Pow2(L) * k[2] <= k[1])
        /\ (L < MaxZoomLevel => k[1] < Pow2(L + 1) * k[2])

\* C5 (zoom-level mapping): a zoom event of scale k whose level
\* clamp(floor(log2(k)), 0, 9) differs from the zoom of the stored address
\* (the one the last commit shows) stores the address
\* {zoom: level, x: 0, y: 0}.
C5_ZoomSetsAddress ==
    [][\A k \in ZoomScales : \A x \in Pans, y \in Pans :
          (/\ ZoomEvent(k, x, y)
           /\ rendered.tileObj = tileObj
           /\ LevelOfScale(k) # tileCoords.zoom)
          => tileCoords' = [zoom |-> LevelOfScale(k), x |-> 0, y |-> 0]]_vars

\* C6 (overlay scoping): once the tile-fetch effect has run for the current
\* address, a non-empty TAD collection, and a non-empty compartment
\* collection, is the one the service returns for the region of that
\* address.
C6_OverlaysOfCurrentAddress ==
    AddressSettled =>
       /\ (Truthy(tads) /\ tads.items # <<>>) =>
             \E m \in TadMethods : tads = TadsFor(RegionOf(tileCoords), m)
       /\ (Truthy(compartments) /\ compartments.items # <<>>) =>
             compartments = CompartmentsFor(RegionOf(tileCoords))

\* C9 (annotation fetch outcome): a successful fetch stores the response as
\* the collection; a failed one (a rejection or an {error} response) leaves
\* the collection empty and an error message set.
ErrorAnswer == [js |-> "object", error |-> "e"]

C9_AnnotationOutcome ==
    [][/\ \A req \in BagToSet(tadReqs) :
            /\ TadsResolve(req, TadsFor(req.region, req.method))
                  => tads' = TadsFor(req.region, req.method)
            /\ (TadsReject(req) \/ TadsResolve(req, ErrorAnswer))
                  => (tads' = Null /\ error' # Null)
       /\ \A req \in BagToSet(compReqs) :
            /\ CompartmentsResolve(req, CompartmentsFor(req.region))
                  => compartments' = CompartmentsFor(req.region)
            /\ (CompartmentsReject(req) \/ CompartmentsResolve(req, ErrorAnswer))
                  => (compartments' = Null /\ error' # Null)]_vars

\* C10 (late tile failure): once the tile-fetch effect has run for the
\* current address, the rejection of a request made for another address
\* changes nothing of what is shown.
C10_LateFailureDiscarded ==
    [][\A req \in BagToSet(tileReqs) :
          (TileReject(req) /\ req # tileCoords /\ AddressSettled)
          => UNCHANGED <<error, status, matrixData, tads, compartments>>]_vars

(***************************************************************************)
(* Hit-test geometry, as the design states it: a pointer is taken to tile  *)
(* pixels by inverting the view transform; a genomic position p is at tile *)
(* pixel (p - tileOrigin) / resolution * pixelsPerBin, pixelsPerBin being  *)
(* surfaceSize / binCount.                                                 *)
(***************************************************************************)
HandlerHasMatrix ==
    /\ handler # NoHandler
    /\ Truthy(handler.matrixData)
    /\ Len(handler.matrixData.items) > 0

BinCount == Len(handler.matrixData.items)

TileOriginBp ==
    handler.tileCoords.x * TileBins * Resolutions[handler.tileCoords.zoom + 1]

\* The pointer in tile pixels, each coordinate a rational.
PointerTilePixel(event) ==
    LET t == handler.transform
    IN  << <<(event.clientX - t.x) * t.k[2], t.k[1]>>,
           <<(event.clientY - t.y) * t.k[2], t.k[1]>> >>

\* Tile pixel of a genomic position.
BpToTilePixel(bp) ==
    <<(bp - TileOriginBp) * canvasWidth,
      Resolutions[handler.tileCoords.zoom + 1] * BinCount>>

RatLess(a, b) == a[1] * b[2] < b[1] * a[2]

\* The loaded TADs whose square holds the pointer, as indices of the list.
TadsUnder(event) ==
    IF ~Truthy(handler.tads) THEN {}
    ELSE {n \in 1..Len(handler.tads.items) :
            LET lo == BpToTilePixel(handler.tads.items[n].start)
                hi == BpToTilePixel(handler.tads.items[n].end)
                p == PointerTilePixel(event)
            IN  \A c \in 1..2 : ~RatLess(p[c], lo) /\ ~RatLess(hi, p[c])}

\* The pointer is over the matrix: both coordinates in [0, surfaceSize).
PointerOverMatrix(event) ==
    LET p == PointerTilePixel(event)
    IN  \A c \in 1..2 : ~RatLess(p[c], <<0, 1>>) /\ RatLess(p[c], <<canvasWidth, 1>>)

TadContentOf(n) ==
    [kind |-> "TAD", start |-> FormatSI3(handler.tads.items[n].start),
     end |-> FormatSI3(handler.tads.items[n].end)]

\* C7 (hit-test precedence): a pointer move over the matrix and inside the
\* square of some loaded TAD sets the tooltip to the TAD content of the
\* first such TAD of the list, at the pointer; it does not show a score.
C7_TadBeforeCell ==
    [][\A event \in HitPoints :
          (/\ handleMouseMove(event)
           /\ HandlerHasMatrix
           /\ PointerOverMatrix(event)
           /\ TadsUnder(event) # {})
          => LET first == CHOOSE n \in TadsUnder(event) :
                              \A m \in TadsUnder(event) : n <= m
             IN  tooltip' = [visible |-> TRUE, content |-> TadContentOf(first),
                             x |-> event.pageX, y |-> event.pageY]]_vars

\* A state after a pointer move over the matrix at a point that two loaded
\* TADs of different extent hold, the first of them not the last of the
\* list: the tooltip shows the first one.
C7_Witness ==
    /\ HandlerHasMatrix
    /\ tooltip.visible
    /\ tooltip.content.kind = "TAD"
    /\ LET event == MouseEvent(tooltip.x, tooltip.y)
           under == TadsUnder(event)
       IN  /\ PointerOverMatrix(event)
           /\ \E n \in under, m \in under :
                 /\ n < m
                 /\ TadContentOf(n) # TadContentOf(m)
                 /\ \A l \in under : n <= l
                 /\ tooltip.content = TadContentOf(n)

\* The matrix cell under the pointer: <<row, col>>.
CellUnder(event) ==
    LET p == PointerTilePixel(event)
    IN  << (p[2][1] * BinCount) \div (p[2][2] * canvasWidth),
           (p[1][1] * BinCount) \div (p[1][2] * canvasWidth) >>

\* C8 (hit-test fallback): a pointer move inside no TAD's square shows the
\* value of the cell under the pointer when the cell is within the matrix
\* and holds data (it is neither null nor 0), and hides the tooltip
\* otherwise.
C8_FallbackHidesNoData ==
    [][\A event \in HitPoints :
          (/\ handleMouseMove(event)
           /\ HandlerHasMatrix
           /\ TadsUnder(event) = {})
          => LET rc == CellUnder(event)
                 inside == \A c \in 1..2 : rc[c] >= 0 /\ rc[c] < BinCount
                 cell == handler.matrixData.items[rc[1] + 1][rc[2] + 1]
             IN  IF inside /\ cell # Null /\ cell.v # 0
                 THEN tooltip' = [visible |-> TRUE,
                                  content |-> [kind |-> "Score",
                                               value |-> ToFixed2(cell.v)],
                                  x |-> event.pageX, y |-> event.pageY]
                 ELSE ~tooltip'.visible]_vars

(***************************************************************************)
(* Who issues requests.                                                    *)
(***************************************************************************)
\* A step puts a request into a bag of requests in flight.
Issues(before, after) ==
    \E r \in BagToSet(after) : CopiesIn(r, after) > CopiesIn(r, before)

\* C11 (annotation requests are user-triggered): a step that issues a TAD
\* request is a click on 'Find TADs' and a step that issues a compartment
\* request is a click on 'Find Compartments'; zoom and pan events, pointer
\* moves, resizes, tile responses, renders and effects issue neither.
C11_AnnotationRequestsByClick ==
    [][/\ Issues(tadReqs, tadReqs') => handleFindTADs
       /\ Issues(compReqs, compReqs') => handleFindCompartments
       /\ (\/ \E k \in ZoomScales, x \in Pans, y \in Pans : ZoomEvent(k, x, y)
           \/ \E event \in MousePoints : handleMouseMove(event)
           \/ handleMouseOut
           \/ \E w \in ContainerWidths : Resize(w)
           \/ \E req \in BagToSet(tileReqs) :
                 \/ TileReject(req)
                 \/ \E data \in TilePayloads(req) : TileResolve(req, data)
           \/ Render
           \/ FlushEffects)
          => UNCHANGED <<tadReqs, compReqs>>]_vars

\* A zoom to level 1 and a resize are all the user did; the tile of the new
\* address arrived and was drawn, the pointer moved over it, and no
\* annotation was asked for or stored.
C11_Witness ==
    /\ userEvents = MaxEvents
    /\ tileCoords.zoom = 1
    /\ transform # ZoomIdentity
    /\ dimensions # Null
    /\ status = "rendered"
    /\ matrixData = TileData(tileCoords)
    /\ handler # NoHandler
    /\ handler.matrixData = matrixData
    /\ tooltip.visible
    /\ tadReqs = EmptyBag
    /\ compReqs = EmptyBag
    /\ tads = Null
    /\ compartments = Null

\* C12 (pointer events): a pointer move and a pointer-out change the
\* tooltip alone: address, status, error, matrix, transform, TADs and
\* compartments stay as they are and no request is issued.
C12_PointerChangesTooltipOnly ==
    [][((\E event \in MousePoints : handleMouseMove(event)) \/ handleMouseOut)
          => UNCHANGED <<tileCoords, tileObj, status, error, matrixData,
                         transform, tads, compartments, tileReqs, tadReqs,
                         compReqs>>]_vars

\* The pointer moved over a drawn cell, the user did nothing else: the
\* tooltip shows the score, and the one request of the mount is answered.
C12_Witness ==
    /\ userEvents = 0
    /\ tooltip.visible
    /\ tooltip.content.kind = "Score"
    /\ status = "rendered"
    /\ tileCoords = [zoom |-> 0, x |-> 0, y |-> 0]
    /\ tileObj = 0
    /\ matrixData = TileData(tileCoords)
    /\ tileReqs = EmptyBag
    /\ tileEffectDep # NoDep
    /\ tileEffectDep.obj = tileObj

(***************************************************************************)
(* The resolution ladder.                                                  *)
(***************************************************************************)
LookupTables ==
    {Resolutions, ResolutionsCompartments, ResolutionsRender, ResolutionsMouseMove}

\* The zoom levels the viewer holds: in the state, in the last commit and
\* in the registered handler.
ZoomsInUse ==
    {tileCoords.zoom, rendered.tileCoords.zoom}
        \cup (IF handler = NoHandler THEN {} ELSE {handler.tileCoords.zoom})

\* C13 (resolution ladder): the tables of the four lookup sites are one
\* table; it has exactly 10 entries, for zoom 0..9, each a positive number
\* of base pairs, and the entry of every zoom z in 1..9 is greater than the
\* entry of z - 1; the lookup of every zoom in use finds an entry.
C13_ResolutionLadder ==
    /\ \A T \in LookupTables :
          /\ Len(T) = MaxZoomLevel - MinZoomLevel + 1
          /\ \A z \in MinZoomLevel..MaxZoomLevel : T[z + 1] \in Nat \ {0}
          /\ \A z \in (MinZoomLevel + 1)..MaxZoomLevel : T[z + 1] > T[z]
    /\ \A T \in LookupTables, U \in LookupTables : T = U
    /\ \A z \in ZoomsInUse : \A T \in LookupTables : z + 1 \in DOMAIN T

\* Lookups at zoom 1 were made at two sites: a TAD request went out for
\* the region of the zoom-1 address, and a pointer move over the answer's
\* first TAD shows its end, one bin of 20 kb.
C13_Witness ==
    /\ handler # NoHandler
    /\ handler.tileCoords.zoom = 1
    /\ Truthy(handler.tads)
    /\ handler.tads = TadsFor(RegionOf(handler.tileCoords), "insulation")
    /\ tooltip.visible
    /\ tooltip.content = [kind |-> "TAD", start |-> FormatSI3(0),
                          end |-> FormatSI3(ResolutionsMouseMove[2])]

(***************************************************************************)
(* Bounds of scale and zoom.                                               *)
(***************************************************************************)
ScaleInExtent(k) == MinScale * k[2] <= k[1] /\ k[1] <= MaxScale * k[2]

ZoomInRange(z) == z \in MinZoomLevel..MaxZoomLevel

\* C14 (bounds): in every state the scale of the view transform is in
\* [1, 64] and the zoom of the tile address is in 0..9; so are the ones the
\* last commit and the registered handler hold and the zoom of every tile
\* request in flight, and each is an index of the resolution tables.
C14_ScaleAndZoomInBounds ==
    /\ ScaleInExtent(transform.k)
    /\ ScaleInExtent(rendered.transform.k)
    /\ handler # NoHandler => ScaleInExtent(handler.transform.k)
    /\ \A z \in ZoomsInUse \cup {req.zoom : req \in BagToSet(tileReqs)} :
          /\ ZoomInRange(z)
          /\ \A T \in LookupTables : z + 1 \in DOMAIN T

\* The view was zoomed to the upper end of the scale extent, and the
\* address of its level was stored, committed and requested.
C14_Witness ==
    /\ transform.k = <<MaxScale, 1>>
    /\ tileCoords.zoom = FloorLog2(MaxScale, 1)
    /\ handler # NoHandler
    /\ handler.transform.k = <<MaxScale, 1>>
    /\ handler.tileCoords.zoom = tileCoords.zoom
    /\ BagIn(tileCoords, tileReqs)

(***************************************************************************)
(* Failures and retries.                                                   *)
(***************************************************************************)
\* The request for the committed address failed and nothing has been
\* fetched since: the tile-fetch effect last ran for this very address (it
\* set 'fetching' and cleared the error), no response has been stored after
\* that (status is still 'fetching'), no request is left in flight, and the
\* failure message of the tile fetch is set.
TileFetchFailed ==
    /\ tileEffectDep # NoDep
    /\ tileEffectDep.coords = rendered.tileCoords
    /\ tileCoords = rendered.tileCoords
    /\ status = "fetching"
    /\ error = ErrBackend
    /\ tileReqs = EmptyBag

\* C15 (no automatic retry): the step that handles a failure issues no
\* request; after the tile request of the address has failed, no tile
\* request is issued while the address is the same; a TAD or compartment
\* request is issued by the user's click alone.
C15_NoAutomaticRetry ==
    [][/\ \A req \in BagToSet(tileReqs) :
            TileReject(req)
               => ~Issues(tileReqs, tileReqs') /\ UNCHANGED <<tadReqs, compReqs>>
       /\ \A req \in BagToSet(tadReqs) :
            (TadsReject(req) \/ TadsResolve(req, ErrorAnswer))
               => ~Issues(tadReqs, tadReqs') /\ UNCHANGED <<tileReqs, compReqs>>
       /\ \A req \in BagToSet(compReqs) :
            (CompartmentsReject(req) \/ CompartmentsResolve(req, ErrorAnswer))
               => ~Issues(compReqs, compReqs') /\ UNCHANGED <<tileReqs, tadReqs>>
       /\ TileFetchFailed => ~Issues(tileReqs, tileReqs')
       /\ Issues(tadReqs, tadReqs') => handleFindTADs
       /\ Issues(compReqs, compReqs') => handleFindCompartments]_vars

(***************************************************************************)
(* The renderer.                                                           *)
(***************************************************************************)
\* For a committed matrix of no bins, with dimensions known, the render
\* effect clears the canvas and paints no cell and no TAD outline.
EmptyTilePaintsNothing ==
    (rendered.matrixData = EmptyTile /\ rendered.dimensions # Null)
       => LET painting == RenderEffect(rendered)
          IN  /\ painting.outcome = "cleared"
              /\ painting.cells = {}
              /\ painting.tadOutlines = {}

\* C16 (empty tile): for a stored matrix of no bins the render effect
\* clears the canvas and paints no cell and no TAD outline, the error stays
\* as it is, and a pointer move leaves the tooltip as it is.
C16_EmptyTileNoOp ==
    [][/\ EmptyTilePaintsNothing
       /\ EmptyTilePaintsNothing'
       /\ (FlushEffects /\ rendered.matrixData = EmptyTile /\ ~TileEffectRuns)
             => UNCHANGED <<error, status>>
       /\ \A event \in MousePoints :
            (handleMouseMove(event) /\ handler.matrixData = EmptyTile)
               => tooltip' = tooltip]_vars

\* The tooltip shows the score of a cell of the tile before; the tile of
\* the next address came with no bins and was committed with dimensions
\* known, and the handler holds it: the tooltip is still there.
C16_Witness ==
    /\ handler # NoHandler
    /\ handler.matrixData = EmptyTile
    /\ rendered.matrixData = EmptyTile
    /\ rendered.dimensions # Null
    /\ ~effectsPending
    /\ error = Null
    /\ tooltip.visible
    /\ tooltip.content.kind = "Score"

\* The k-th smallest of a sequence of numbers, k in 1..Len.
KthSmallest(values, k) ==
    CHOOSE v \in {values[n] : n \in DOMAIN values} :
        /\ Cardinality({n \in DOMAIN values : values[n] < v}) < k
        /\ Cardinality({n \in DOMAIN values : values[n] <= v}) >= k

\* The 95th percentile of a non-empty sequence of numbers, by linear
\* interpolation between the closest ranks: with h = (n - 1) * 0.95 it is
\* v[floor(h)] + (h - floor(h)) * (v[floor(h) + 1] - v[floor(h)]) over the
\* ordered values v[0..n-1].  A rational in lowest terms.
Percentile95(values) ==
    LET n == Len(values)
        h20 == (n - 1) * 19
        lo == h20 \div 20
        vLo == KthSmallest(values, lo + 1)
        vHi == IF lo + 2 <= n THEN KthSmallest(values, lo + 2) ELSE vLo
        num == 20 * vLo + (h20 - 20 * lo) * (vHi - vLo)
        g == Gcd(num, 20)
    IN  <<num \div g, 20 \div g>>

\* The strictly positive values of a matrix, row by row.
StrictlyPositive(matrix) ==
    LET cells == Flat(matrix.items)
        keep == SelectSeq([n \in DOMAIN cells |-> n],
                          LAMBDA n : cells[n].js = "number" /\ cells[n].v >= 1)
    IN  [m \in DOMAIN keep |-> cells[keep[m]].v]

\* C17 (color domain): whenever the render effect paints, the domain of
\* the color scale is [0, u], u being the 95th percentile of the strictly
\* positive values of the matrix, or 1 when there is none; the cells it
\* fills are those with a strictly positive value, so a cell that is null,
\* zero or negative is left unpainted.
C17_ColorDomain ==
    LET painting == RenderEffect(rendered)
        matrix == rendered.matrixData
        positive == StrictlyPositive(matrix)
    IN  painting.outcome = "painted" =>
           /\ painting.domain[1] = 0
           /\ painting.domain[2] = IF positive = <<>> THEN <<1000, 1>>
                                   ELSE Percentile95(positive)
           /\ \A i \in 1..Len(matrix.items), j \in 1..Len(matrix.items) :
                 LET cell == matrix.items[i][j]
                 IN  (cell = Null \/ cell.v <= 0) => <<i, j>> \notin painting.cells

\* The matrix of values 0, 0, 5, 10, 20, 100 is painted: the upper bound of
\* the domain is 88, the 95th percentile of 5, 10, 20, 100, and the four
\* cells of those values are the ones filled; the pointer is over the cell
\* of value 100.
C17_Witness ==
    /\ rendered.matrixData = SkewedMatrix
    /\ ~effectsPending
    /\ tooltip.visible
    /\ tooltip.content = [kind |-> "Score", value |-> ToFixed2(100000)]
    /\ RenderEffect(rendered).outcome = "painted"
    /\ RenderEffect(rendered).domain = <<0, <<88000, 1>>>>
    /\ RenderEffect(rendered).cells = {<<1, 2>>, <<1, 3>>, <<2, 1>>, <<2, 3>>}

(***************************************************************************)
(* Zoom tracking.                                                          *)
(***************************************************************************)
\* Every state update is applied: the state is committed, the effects of
\* the commit have run, and the registered listeners are those of that
\* commit.
UpdatesApplied ==
    /\ rendered = StateRecord
    /\ ~effectsPending
    /\ handler = HandlerOf(rendered)

\* C18 (zoom tracking): once every state update is applied, the zoom of the
\* stored address is clamp(floor(log2(k)), 0, 9) of the stored scale k.
C18_ZoomTracksScale ==
    UpdatesApplied => tileCoords.zoom = LevelOfScale(transform.k)

(***************************************************************************)
(* Matrix and address.                                                     *)
(***************************************************************************)
\* The matrices the tile service returns for the addresses the viewer can
\* hold.
IsTileMatrix(matrix) ==
    \E z \in MinZoomLevel..MaxZoomLevel :
        matrix = TileData([zoom |-> z, x |-> 0, y |-> 0])

\* C19 (matrix/address pairing): the matrix the registered pointer handler
\* hit-tests with the resolution and origin of its address is the one
\* fetched for that address, and so is the matrix the render effect paints
\* with the resolution and origin of the committed address.
C19_MatrixOfAddress ==
    /\ (handler # NoHandler /\ IsTileMatrix(handler.matrixData))
          => handler.matrixData = TileData(handler.tileCoords)
    /\ (RenderEffect(rendered).outcome = "painted"
           /\ IsTileMatrix(rendered.matrixData))
          => rendered.matrixData = TileData(rendered.tileCoords)

(***************************************************************************)
(* Renderer and hit-tester.                                                *)
(***************************************************************************)
\* C20 (renderer and hit-tester agree on TADs): when the canvas shows the
\* painting of the commit whose listeners are registered, a pointer move
\* that reports a TAD reports one whose outline the render effect drew.
C20_ReportedTadIsOutlined ==
    [][\A event \in HitPoints :
          (/\ handleMouseMove(event)
           /\ handler = HandlerOf(rendered)
           /\ RenderEffect(rendered).outcome = "painted"
           /\ RenderEffect(rendered).size = canvasWidth
           /\ tooltip'.visible
           /\ tooltip'.content.kind = "TAD")
          => \E n \in RenderEffect(rendered).tadOutlines :
                tooltip'.content = TadContentOf(n)]_vars

(***************************************************************************)
(* Panning: the viewer under zoom gestures that also move the view, with   *)
(* the tile responses they cause.  A drag is a zoom event whose transform  *)
(* keeps the scale and changes the translation.                            *)
(***************************************************************************)
PanScales == {<<MinScale, 1>>, <<3, 2>>, <<2, 1>>}
PanOffsets == {0, -1, 3}

NextPan ==
    \/ Render
    \/ FlushEffects
    \/ \E k \in PanScales, x \in PanOffsets, y \in PanOffsets : ZoomEvent(k, x, y)
    \/ \E req \in BagToSet(tileReqs) :
          \E data \in TilePayloads(req) : TileResolve(req, data)
    \/ \E req \in BagToSet(tileReqs) : TileReject(req)

SpecPan == Init /\ [][NextPan]_vars

\* C21 (single tile per zoom level): the tile address has x = 0 and y = 0
\* in every state, and so have the address of the last commit, the one the
\* registered handler holds, the one the tile-fetch effect last ran for and
\* every tile request in flight.
C21_SingleTilePerLevel ==
    \A coords \in {tileCoords, rendered.tileCoords}
                    \cup (IF handler = NoHandler THEN {} ELSE {handler.tileCoords})
                    \cup (IF tileEffectDep = NoDep THEN {} ELSE {tileEffectDep.coords})
                    \cup BagToSet(tileReqs) :
        coords.x = 0 /\ coords.y = 0

\* The view was zoomed to level 1 and then dragged; the tile of the level
\* arrived and is the stored matrix.
C21_Witness ==
    /\ userEvents = MaxEvents
    /\ transform.x # 0
    /\ transform.y # 0
    /\ tileCoords = [zoom |-> 1, x |-> 0, y |-> 0]
    /\ matrixData = TileData(tileCoords)
    /\ status = "rendered"
    /\ tileReqs = EmptyBag
    /\ UpdatesApplied

(***************************************************************************)
(* GeneInfoPanel (app.jsx:26-105) under GeneTracksView's selection.  Its   *)
(* effect, useEffect(..., [gene]), resets the panel and starts a chain of  *)
(* three requests: the gene lookup, the gene's pathways and the diagram of *)
(* the first pathway.  A chain in flight is the gene name it was started   *)
(* for and the request it is waiting on.                                   *)
(***************************************************************************)
GeneNames == {"BRCA1", "TP53"}

\* The features of the loaded track: two named genes and one without a name.
Genes == {[js |-> "gene", name |-> n] : n \in GeneNames \cup {""}}

\* !(!gene || !gene.name)
HasName(gene) == gene # Null /\ gene.name # ""

\* What the lookup service answers for a gene name, and the graph built
\* from the diagram service's answer for it.
GeneDataOf(name) == [js |-> "object", id |-> name]
GraphOf(name) == [js |-> "object", nodesOf |-> name]

\* The effect of the last commit has a chain to start when it runs.
ChainToStart ==
    /\ HasName(selectedGene)
    /\ geneEffectDep = NoDep \/ geneEffectDep.gene # selectedGene

\* .on("click", (event, d) => setSelectedGene(d))
SelectGene(gene) ==
    /\ gene # selectedGene
    /\ BagCardinality(geneChains) + (IF ChainToStart THEN 1 ELSE 0) < MaxChains
    /\ selectedGene' = gene
    /\ UNCHANGED <<geneDetails, pathwayGraph, isLoading, pathwayStatus, panelGene,
                   panelEffectsPending, geneEffectDep, geneChains>>
    /\ UNCHANGED viewerVars

\* onClose={() => setSelectedGene(null)}, on the button of a shown panel.
ClosePanel ==
    /\ panelGene # Null
    /\ selectedGene # Null
    /\ selectedGene' = Null
    /\ UNCHANGED <<geneDetails, pathwayGraph, isLoading, pathwayStatus, panelGene,
                   panelEffectsPending, geneEffectDep, geneChains>>
    /\ UNCHANGED viewerVars

\* GeneInfoPanel renders with the selection as its gene prop.
PanelRender ==
    /\ ~panelEffectsPending
    /\ selectedGene # panelGene
    /\ panelGene' = selectedGene
    /\ panelEffectsPending' = TRUE
    /\ UNCHANGED <<selectedGene, geneDetails, pathwayGraph, isLoading,
                   pathwayStatus, geneEffectDep, geneChains>>
    /\ UNCHANGED viewerVars

\* The effect runs when the gene prop is not the one it last ran with.
PanelFlushEffects ==
    /\ panelEffectsPending
    /\ panelEffectsPending' = FALSE
    /\ IF geneEffectDep = NoDep \/ geneEffectDep.gene # panelGene
       THEN /\ geneDetails' = Null
            /\ pathwayGraph' = Null
            /\ pathwayStatus' = "idle"
            /\ geneEffectDep' = [js |-> "deps", gene |-> panelGene]
            /\ IF HasName(panelGene)
               THEN /\ isLoading' = TRUE
                    /\ geneChains' = geneChains
                          (+) SetToBag({[gene |-> panelGene.name, stage |-> "lookup"]})
               ELSE /\ isLoading' = FALSE
                    /\ UNCHANGED geneChains
       ELSE UNCHANGED <<geneDetails, pathwayGraph, pathwayStatus, geneEffectDep,
                        isLoading, geneChains>>
    /\ UNCHANGED <<selectedGene, panelGene>>
    /\ UNCHANGED viewerVars

\* The chain moves on to its next request.
ChainAdvances(chain, stage) ==
    geneChains' = (geneChains (-) SetToBag({chain}))
                     (+) SetToBag({[gene |-> chain.gene, stage |-> stage]})

ChainEnds(chain) == geneChains' = geneChains (-) SetToBag({chain})

\* .catch(err => { setIsLoading(false); setPathwayStatus('error') })
ChainFails(chain) ==
    /\ ChainEnds(chain)
    /\ isLoading' = FALSE
    /\ pathwayStatus' = "error"
    /\ UNCHANGED <<geneDetails, pathwayGraph>>

LookupOutcomes == {"ok", "failed"}

\* The answer to the lookup request: the first two callbacks of the chain.
LookupResponse(chain, outcome) ==
    /\ BagIn(chain, geneChains)
    /\ chain.stage = "lookup"
    /\ IF outcome = "ok"
       THEN /\ geneDetails' = GeneDataOf(chain.gene)
            /\ isLoading' = FALSE
            /\ pathwayStatus' = "loading"
            /\ ChainAdvances(chain, "pathways")
            /\ UNCHANGED pathwayGraph
       ELSE ChainFails(chain)
    /\ UNCHANGED <<selectedGene, panelGene, panelEffectsPending, geneEffectDep>>
    /\ UNCHANGED viewerVars

\* "none" is an empty list or a status that is not ok (read as []);
\* "failed" is a rejected request.
PathwaysOutcomes == {"pathways", "none", "failed"}

\* The answer to the pathways request: the third and fourth callback.
PathwaysResponse(chain, outcome) ==
    /\ BagIn(chain, geneChains)
    /\ chain.stage = "pathways"
    /\ IF outcome = "pathways"
       THEN /\ ChainAdvances(chain, "diagram")
            /\ UNCHANGED <<geneDetails, pathwayGraph, isLoading, pathwayStatus>>
       ELSE IF outcome = "none"
       THEN /\ pathwayStatus' = "no_data"
            /\ ChainEnds(chain)
            /\ UNCHANGED <<geneDetails, pathwayGraph, isLoading>>
       ELSE ChainFails(chain)
    /\ UNCHANGED <<selectedGene, panelGene, panelEffectsPending, geneEffectDep>>
    /\ UNCHANGED viewerVars

DiagramOutcomes == {"graph", "empty", "failed"}

\* The answer to the diagram request: the fifth and sixth callback.
DiagramResponse(chain, outcome) ==
    /\ BagIn(chain, geneChains)
    /\ chain.stage = "diagram"
    /\ IF outcome = "graph"
       THEN /\ pathwayGraph' = GraphOf(chain.gene)
            /\ pathwayStatus' = "success"
            /\ ChainEnds(chain)
            /\ UNCHANGED <<geneDetails, isLoading>>
       ELSE IF outcome = "empty"
       THEN /\ ChainEnds(chain)
            /\ UNCHANGED <<geneDetails, pathwayGraph, isLoading, pathwayStatus>>
       ELSE ChainFails(chain)
    /\ UNCHANGED <<selectedGene, panelGene, panelEffectsPending, geneEffectDep>>
    /\ UNCHANGED viewerVars

NextGene ==
    \/ \E gene \in Genes : SelectGene(gene)
    \/ ClosePanel
    \/ PanelRender
    \/ PanelFlushEffects
    \/ \E chain \in BagToSet(geneChains) :
          \E outcome \in LookupOutcomes : LookupResponse(chain, outcome)
    \/ \E chain \in BagToSet(geneChains) :
          \E outcome \in PathwaysOutcomes : PathwaysResponse(chain, outcome)
    \/ \E chain \in BagToSet(geneChains) :
          \E outcome \in DiagramOutcomes : DiagramResponse(chain, outcome)

SpecGene == Init /\ [][NextGene]_vars

\* The panel shows the selected gene: the selection is committed and the
\* effect has run for it, so the panel was reset and the gene's own chain
\* was started.
PanelSettled ==
    /\ HasName(selectedGene)
    /\ panelGene = selectedGene
    /\ ~panelEffectsPending
    /\ geneEffectDep # NoDep
    /\ geneEffectDep.gene = selectedGene

\* A response of the chain arrives.
ChainResponds(chain) ==
    \/ \E outcome \in LookupOutcomes : LookupResponse(chain, outcome)
    \/ \E outcome \in PathwaysOutcomes : PathwaysResponse(chain, outcome)
    \/ \E outcome \in DiagramOutcomes : DiagramResponse(chain, outcome)

\* C22 (gene panel): while the panel shows the selected gene, a response of
\* a chain started for another gene changes none of the gene details, the
\* pathway graph, the loading flag and the pathway status.
C22_StaleChainDiscarded ==
    [][\A chain \in BagToSet(geneChains) :
          (/\ PanelSettled
           /\ chain.gene # selectedGene.name
           /\ ChainResponds(chain))
          => UNCHANGED <<geneDetails, pathwayGraph, isLoading, pathwayStatus>>]_vars

====
